---- MODULE Spec2Model ----
(***************************************************************************)
(* Item Tracker API (FastAPI + SQLAlchemy on PostgreSQL).                  *)
(*                                                                         *)
(* Spec         : the five /items endpoints of main.py acting on the items *)
(*                table through crud.py, one action per endpoint handler.  *)
(* SpecSessions : the get_db dependency of database.py wrapped around the  *)
(*                handlers of concurrent requests, with fairness.          *)
(*                                                                         *)
(* Texts are sequences of one-character strings.  A nullable value is a    *)
(* sequence of length 0 (NULL / None) or 1 (the value).  A request body is *)
(* a record whose domain is the set of fields the client supplied.         *)
(***************************************************************************)
EXTENDS Integers, Sequences, FiniteSets, TLC

VARIABLES engine,      \* database.py: TRUE iff DATABASE_URL gave an engine
          items,       \* the rows of table "items"
          nextId,      \* next value of the id sequence of the table
          clock,       \* now() of the latest write transaction
          created,     \* history: ids returned by successful creates
          resp,        \* the request last served and its response
          scan,        \* history: pages skip = 0, limit, 2*limit, ... read
                       \* back to back over an unchanged table
          reqState,    \* SpecSessions: where each request is in get_db
          reqDb,       \* SpecSessions: the session a request holds (0: none)
          nextSession, \* SpecSessions: next session SessionLocal() builds
          opened,      \* SpecSessions: sessions built so far
          closes       \* SpecSessions: number of db.close() per session

storeVars   == <<items, nextId, clock, created, resp, scan>>
sessionVars == <<reqState, reqDb, nextSession, opened, closes>>
vars        == <<engine, items, nextId, clock, created, resp, scan,
                 reqState, reqDb, nextSession, opened, closes>>

---------------------------------------------------------------------------
(* Bounds of the model *)
MaxId       == 2    \* ids the sequence hands out
MaxClock    == 3    \* write transactions
MaxSkip     == 3    \* largest skip requested
MaxLimit    == 2    \* largest small limit requested (besides the cap)
MaxSessions == 4    \* sessions built
NumRequests == 3    \* concurrent request slots

(* Program constants *)
NameMax     == 255
LocationMax == 255
StatusMax   == 50
CategoryMax == 100
ImageUrlMax == 500
LimitCap    == 100
DefaultLimit == 10

---------------------------------------------------------------------------
(* Values *)
Null    == << >>
Some(v) == << v >>

Lamp   == << "L", "a", "m", "p" >>
Box    == << "B", "o", "x" >>
Attic  == << "A", "t", "t", "i", "c" >>
Active == << "a", "c", "t", "i", "v", "e" >>
Lost   == << "l", "o", "s", "t" >>
Tool   == << "t", "o", "o", "l" >>
Note   == << "n" >>
TooLongName == [i \in 1..(NameMax + 1) |-> "x"]
TooLongLoc  == [i \in 1..(LocationMax + 1) |-> "x"]

Min(a, b) == IF a < b THEN a ELSE b
Max(a, b) == IF a > b THEN a ELSE b

BusinessFields == {"name", "description", "location", "status", "category",
                   "is_fragile", "image_url"}

NoBody == [f \in {} |-> Null]

(* Request bodies offered to POST /items/ *)
CreateBodies ==
  << [name |-> Some(Lamp), status |-> Some(Active)],
     [name |-> Some(Box), location |-> Some(Attic), status |-> Some(Lost),
      category |-> Some(Tool), is_fragile |-> Some(TRUE)],
     [description |-> Some(Note)],
     [name |-> Null],
     [name |-> Some(<< >>)],
     [name |-> Some(TooLongName)],
     [name |-> Some(Lamp), status |-> Null] >>

(* Request bodies offered to PUT /items/{id} *)
UpdateBodies ==
  << NoBody,
     [location |-> Some(Attic)],
     [location |-> Null, description |-> Some(Note)],
     [name |-> Some(Box), status |-> Some(Lost)],
     [name |-> Null],
     [name |-> Some(<< >>)],
     [location |-> Some(TooLongLoc)] >>

(* Query strings offered to GET /items/ *)
NoFilter == [search |-> Null, status |-> Null, category |-> Null,
             location |-> Null]
ListFilters ==
  << NoFilter,
     [NoFilter EXCEPT !.search = Some(<< "_" >>)],
     [NoFilter EXCEPT !.status = Some(<< >>)],
     [search |-> Some(<< "b" >>), status |-> Some(Lost),
      category |-> Some(Tool), location |-> Some(<< "a", "t" >>)] >>

ListLimits == (0..MaxLimit) \cup {LimitCap, LimitCap + 1}

---------------------------------------------------------------------------
(* schema.py: request validation *)

LenOk(body, f, lo, hi) ==
  (f \in DOMAIN body /\ body[f] # Null)
     => (Len(body[f][1]) >= lo /\ Len(body[f][1]) <= hi)

\* ItemBase / ItemCreate: name required; status and is_fragile are not
\* Optional, so a supplied null is rejected.
ItemCreateValid(body) ==
  /\ "name" \in DOMAIN body
  /\ body["name"] # Null
  /\ LenOk(body, "name", 1, NameMax)
  /\ LenOk(body, "location", 0, LocationMax)
  /\ ("status" \in DOMAIN body => body["status"] # Null)
  /\ LenOk(body, "status", 0, StatusMax)
  /\ LenOk(body, "category", 0, CategoryMax)
  /\ ("is_fragile" \in DOMAIN body => body["is_fragile"] # Null)
  /\ LenOk(body, "image_url", 0, ImageUrlMax)

\* ItemCreate.dict(): every field, defaults filled in
ItemDefaults == [name |-> Null, description |-> Null, location |-> Null,
                 status |-> Some(Active), category |-> Null,
                 is_fragile |-> Some(FALSE), image_url |-> Null]

ItemCreateDict(body) ==
  [f \in BusinessFields |-> IF f \in DOMAIN body THEN body[f]
                            ELSE ItemDefaults[f]]

\* ItemUpdate: every field Optional, so an explicit null passes for all
ItemUpdateValid(body) ==
  /\ LenOk(body, "name", 1, NameMax)
  /\ LenOk(body, "location", 0, LocationMax)
  /\ LenOk(body, "status", 0, StatusMax)
  /\ LenOk(body, "category", 0, CategoryMax)
  /\ LenOk(body, "image_url", 0, ImageUrlMax)

\* ItemUpdate.dict(exclude_unset=True): exactly the supplied fields
ItemUpdateDict(body) == body

\* read_items: Query(0, ge=0), Query(10, ge=1, le=100)
ListParamsValid(skip, limit) == skip >= 0 /\ limit >= 1 /\ limit <= LimitCap

---------------------------------------------------------------------------
(* models.py: the constraints of table items *)

ColTooLong(row, f, hi) == row[f] # Null /\ Len(row[f][1]) > hi

ViolatesConstraints(row) ==
  \/ row["name"] = Null
  \/ row["status"] = Null
  \/ row["is_fragile"] = Null
  \/ ColTooLong(row, "name", NameMax)
  \/ ColTooLong(row, "location", LocationMax)
  \/ ColTooLong(row, "status", StatusMax)
  \/ ColTooLong(row, "category", CategoryMax)
  \/ ColTooLong(row, "image_url", ImageUrlMax)

Ids     == {r.id : r \in items}
RowOf(id) == CHOOSE r \in items : r.id = id

---------------------------------------------------------------------------
(* crud.py: get_items *)

Lower(c) == CASE c = "A" -> "a"
              [] c = "B" -> "b"
              [] c = "L" -> "l"
              [] OTHER   -> c

\* SQL LIKE on lower-cased operands: % matches any run of characters and
\* _ any one character, also when they come from the caller's text.
RECURSIVE Like(_, _)
Like(s, p) ==
  IF p = << >> THEN s = << >>
  ELSE IF Head(p) = "%"
       THEN Like(s, Tail(p)) \/ (s # << >> /\ Like(Tail(s), p))
       ELSE /\ s # << >>
            /\ (Head(p) = "_" \/ Lower(Head(s)) = Lower(Head(p)))
            /\ Like(Tail(s), Tail(p))

\* column.ilike(f"%{text}%"); NULL ILIKE anything is not true
ILike(col, text) == col # Null /\ Like(col[1], << "%" >> \o text \o << "%" >>)

\* `if search:` and its siblings: None and "" both skip the filter
Truthy(opt) == opt # Null /\ opt[1] # << >>

RowMatches(row, f) ==
  /\ (Truthy(f.search)   => ILike(row["name"], f.search[1]))
  /\ (Truthy(f.status)   => row["status"] = f.status)
  /\ (Truthy(f.category) => row["category"] = f.category)
  /\ (Truthy(f.location) => ILike(row["location"], f.location[1]))

Matching(f) == {r.id : r \in {x \in items : RowMatches(x, f)}}

\* The query has no ORDER BY: the store may return the matching rows in any
\* order, and a different one for every statement it executes.
Orders(S) == {o \in [1..Cardinality(S) -> S] :
                 \A i, j \in 1..Cardinality(S) : i # j => o[i] # o[j]}

\* query.count()
QueryCount(f) == Cardinality(Matching(f))

\* query.offset(skip).limit(limit).all() on the rows in order `order`
OffsetLimit(order, skip, limit) ==
  SubSeq(order, skip + 1, Min(skip + limit, Len(order)))

get_items(skip, limit, f, order) ==
  [items |-> OffsetLimit(order, skip, limit), total |-> QueryCount(f)]

(* main.py: read_items pagination metadata *)
\* pages counted as floor + 1, one too many on an exact multiple
PagesFloorPlusOne(total, limit) ==
  IF total > 0 THEN (total \div limit) + 1 ELSE 1

\* math.ceil(total / limit): exact in floating point for every total the
\* 32-bit id column allows
Pages(total, limit) ==
  IF total > 0
  THEN (IF total % limit = 0 THEN total \div limit ELSE (total \div limit) + 1)
  ELSE 1

Page(skip, limit) == (skip \div limit) + 1

---------------------------------------------------------------------------
(* crud.py: create_item, update_item, delete_item, get_item *)

\* now() of a new transaction: later than that of every earlier one
Now == clock + 1

\* INSERT: id from the sequence, created_at and updated_at from the
\* server_default now() of one statement
create_item(data, id, now) ==
  [f \in BusinessFields \cup {"id", "created_at", "updated_at"} |->
     IF f = "id" THEN id
     ELSE IF f \in {"created_at", "updated_at"} THEN now
     ELSE data[f]]

\* updated_at refreshed only when the request carries a field
UpdatedAtIfSupplied(row, data, now) ==
  IF DOMAIN data = {} THEN row["updated_at"] ELSE now

\* db_item.updated_at = func.now(), whatever update_data holds
UpdatedAt(row, data, now) == now

\* setattr for every key of update_data, then updated_at
update_item(row, data, now) ==
  [f \in DOMAIN row |->
     IF f \in DOMAIN data THEN data[f]
     ELSE IF f = "updated_at" THEN UpdatedAt(row, data, now)
     ELSE row[f]]

\* db.delete(db_item)
delete_item(db_item) == items \ {db_item}

\* first() of the query without its id filter
get_item_unfiltered(id) ==
  IF items = {} THEN Null ELSE Some(CHOOSE r \in items : TRUE)

\* db.query(Item).filter(Item.id == item_id).first()
get_item(id) == IF id \in Ids THEN Some(RowOf(id)) ELSE Null

\* an id computed from the rows present: one more than the largest id
NextValFromRows ==
  IF items = {} THEN 1
  ELSE (CHOOSE i \in Ids : \A j \in Ids : j <= i) + 1

\* nextval of the id sequence
NextVal == nextId

NoScan == [filters |-> 0, limit |-> 0, total |-> 0, pages |-> << >>]

---------------------------------------------------------------------------
(* main.py: the endpoint handlers.  `fault` says that the store fails    *)
(* (connection lost, server down) while the handler runs.  resp.reached  *)
(* says that the request passed validation and the store did not fail.   *)

Failed(op, status, fault) ==
  [op |-> op, status |-> status, fault |-> fault, reached |-> FALSE,
   wrote |-> Null]

\* Depends(get_db) with SessionLocal = None raises before the handler runs
NoEngine(op) == Failed(op, 500, FALSE)

\* except Exception in create_new_item
CreateErrorStatus == 400

\* an exception no handler catches
UncaughtStatus == 500

\* POST /items/
create_new_item(b, fault, drawn) ==
  LET body == CreateBodies[b]
      row  == create_item(ItemCreateDict(body), NextVal, Now)
  IN
  /\ IF ~engine
     THEN /\ resp' = NoEngine("create")
          /\ UNCHANGED <<items, nextId, clock, created>>
     ELSE IF ~ItemCreateValid(body)
     THEN /\ resp' = Failed("create", 422, FALSE)
          /\ UNCHANGED <<items, nextId, clock, created>>
     ELSE IF fault
     THEN \* a value the sequence handed out before the failure is not
          \* given back
          /\ resp' = Failed("create", CreateErrorStatus, TRUE)
          /\ nextId' = IF drawn /\ nextId <= MaxId THEN nextId + 1 ELSE nextId
          /\ UNCHANGED <<items, clock, created>>
     ELSE /\ nextId <= MaxId
          /\ clock < MaxClock
          /\ ~ViolatesConstraints(row)
          /\ items' = items \cup {row}
          /\ nextId' = nextId + 1
          /\ clock' = Now
          /\ created' = created \cup {row.id}
          /\ resp' = [op |-> "create", status |-> 200, fault |-> FALSE,
                      reached |-> TRUE, wrote |-> Some(row), body |-> body,
                      item |-> row]
  /\ scan' = NoScan
  /\ UNCHANGED <<engine, sessionVars>>

\* GET /items/
read_items(skip, limit, fi, fault) ==
  LET f == ListFilters[fi] IN
  /\ IF ~engine
     THEN resp' = NoEngine("list") /\ scan' = NoScan
     ELSE IF ~ListParamsValid(skip, limit)
     THEN resp' = Failed("list", 422, FALSE) /\ scan' = NoScan
     ELSE IF fault
     THEN resp' = Failed("list", UncaughtStatus, TRUE) /\ scan' = NoScan
     ELSE \E order \in Orders(Matching(f)) :
            LET r == get_items(skip, limit, f, order) IN
            /\ resp' = [op |-> "list", status |-> 200, fault |-> FALSE,
                        reached |-> TRUE, wrote |-> Null,
                        skip |-> skip, limit |-> limit, filters |-> fi,
                        items |-> r.items, total |-> r.total,
                        page |-> Page(skip, limit), per_page |-> limit,
                        pages |-> Pages(r.total, limit)]
            /\ scan' = IF /\ scan.filters = fi
                          /\ scan.limit = limit
                          /\ skip = Len(scan.pages) * limit
                          /\ skip > 0
                          /\ skip < scan.total
                       THEN [scan EXCEPT !.pages = Append(@, r.items)]
                       ELSE IF skip = 0
                       THEN [filters |-> fi, limit |-> limit,
                             total |-> r.total, pages |-> << r.items >>]
                       ELSE NoScan
  /\ UNCHANGED <<engine, items, nextId, clock, created, sessionVars>>

\* GET /items/{item_id}
read_item(id, fault) ==
  /\ IF ~engine
     THEN resp' = NoEngine("get")
     ELSE IF fault
     THEN resp' = Failed("get", UncaughtStatus, TRUE)
     ELSE resp' = [op |-> "get", fault |-> FALSE, reached |-> TRUE,
                   wrote |-> Null, id |-> id, item |-> get_item(id),
                   status |-> IF get_item(id) = Null THEN 404 ELSE 200]
  /\ scan' = NoScan
  /\ UNCHANGED <<engine, items, nextId, clock, created, sessionVars>>

\* PUT /items/{item_id}
update_existing_item(id, b, fault) ==
  LET body == UpdateBodies[b]
      base == [op |-> "update", status |-> 200, fault |-> FALSE,
               reached |-> TRUE, wrote |-> Null, id |-> id, body |-> body,
               item |-> Null]
  IN
  /\ IF ~engine
     THEN resp' = NoEngine("update") /\ UNCHANGED <<items, clock>>
     ELSE IF ~ItemUpdateValid(body)
     THEN resp' = Failed("update", 422, FALSE) /\ UNCHANGED <<items, clock>>
     ELSE IF fault
     THEN /\ resp' = Failed("update", UncaughtStatus, TRUE)
          /\ UNCHANGED <<items, clock>>
     ELSE IF get_item(id) = Null
     THEN resp' = [base EXCEPT !.status = 404] /\ UNCHANGED <<items, clock>>
     ELSE LET db_item == get_item(id)[1]
              row     == update_item(db_item, ItemUpdateDict(body), Now)
          IN
          /\ clock < MaxClock
          /\ IF ViolatesConstraints(row)
             THEN \* db.commit() raises IntegrityError / DataError, which
                  \* nothing catches; the transaction is rolled back
                  /\ resp' = [base EXCEPT !.status = UncaughtStatus,
                                          !.wrote = Some(row)]
                  /\ UNCHANGED <<items, clock>>
             ELSE /\ items' = (items \ {db_item}) \cup {row}
                  /\ clock' = Now
                  /\ resp' = [base EXCEPT !.wrote = Some(row),
                                          !.item = Some(row)]
  /\ scan' = NoScan
  /\ UNCHANGED <<engine, nextId, created, sessionVars>>

\* DELETE /items/{item_id}
delete_existing_item(id, fault) ==
  /\ IF ~engine
     THEN resp' = NoEngine("delete") /\ UNCHANGED items
     ELSE IF fault
     THEN resp' = Failed("delete", UncaughtStatus, TRUE) /\ UNCHANGED items
     ELSE /\ resp' = [op |-> "delete", fault |-> FALSE, reached |-> TRUE,
                      wrote |-> Null, id |-> id,
                      status |-> IF get_item(id) = Null THEN 404 ELSE 200]
          /\ items' = IF get_item(id) = Null THEN items
                      ELSE delete_item(get_item(id)[1])
  /\ scan' = NoScan
  /\ UNCHANGED <<engine, nextId, clock, created, sessionVars>>

---------------------------------------------------------------------------
Requests == 1..NumRequests
ItemIds  == 1..(MaxId + 1)

Init ==
  /\ engine \in BOOLEAN
  /\ items = {}
  /\ nextId = 1
  /\ clock = 0
  /\ created = {}
  /\ resp = Failed("none", 0, FALSE)
  /\ scan = NoScan
  /\ reqState = [r \in Requests |-> "idle"]
  /\ reqDb = [r \in Requests |-> 0]
  /\ nextSession = 1
  /\ opened = {}
  /\ closes = [s \in 1..MaxSessions |-> << >>]

(* Spec: every endpoint, with any body; the list is read with its default *)
(* page size and no filter.                                               *)
Next ==
  \/ \E b \in 1..Len(CreateBodies), fault \in BOOLEAN, drawn \in BOOLEAN :
        create_new_item(b, fault, drawn)
  \/ \E skip \in 0..MaxSkip, fault \in BOOLEAN :
        read_items(skip, DefaultLimit, 1, fault)
  \/ \E id \in ItemIds, fault \in BOOLEAN : read_item(id, fault)
  \/ \E id \in ItemIds, b \in 1..Len(UpdateBodies), fault \in BOOLEAN :
        update_existing_item(id, b, fault)
  \/ \E id \in ItemIds, fault \in BOOLEAN : delete_existing_item(id, fault)

Spec == Init /\ [][Next]_vars

(* SpecList: items are created and deleted while the store is up, and the *)
(* list is read with every offset, page size and filter.                  *)
NextList ==
  \/ \E b \in 1..Len(CreateBodies) : create_new_item(b, FALSE, FALSE)
  \/ \E id \in ItemIds : delete_existing_item(id, FALSE)
  \/ \E skip \in 0..MaxSkip, limit \in ListLimits,
        fi \in 1..Len(ListFilters), fault \in BOOLEAN :
        read_items(skip, limit, fi, fault)

SpecList == Init /\ [][NextList]_vars

---------------------------------------------------------------------------
(* database.py: get_db around the handler of each request.  FastAPI runs  *)
(* the generator up to its yield, then the handler, then the rest of the  *)
(* generator; the requests of different clients interleave.               *)

\* db = SessionLocal(); with SessionLocal = None the call raises and the
\* request ends without a session
get_db_enter(r) ==
  /\ reqState[r] = "idle"
  /\ nextSession <= MaxSessions
  /\ IF engine
     THEN /\ reqDb' = [reqDb EXCEPT ![r] = nextSession]
          /\ opened' = opened \cup {nextSession}
          /\ nextSession' = nextSession + 1
          /\ reqState' = [reqState EXCEPT ![r] = "yielded"]
     ELSE /\ reqState' = [reqState EXCEPT ![r] = "refused"]
          /\ UNCHANGED <<reqDb, opened, nextSession>>
  /\ UNCHANGED <<engine, storeVars, closes>>

\* the handler returns a response
handler_returns(r) ==
  /\ reqState[r] = "yielded"
  /\ reqState' = [reqState EXCEPT ![r] = "returned"]
  /\ UNCHANGED <<engine, storeVars, reqDb, nextSession, opened, closes>>

\* the handler raises (HTTPException or an uncaught store error)
handler_raises(r) ==
  /\ reqState[r] = "yielded"
  /\ reqState' = [reqState EXCEPT ![r] = "raised"]
  /\ UNCHANGED <<engine, storeVars, reqDb, nextSession, opened, closes>>

\* db.close() after the yield but outside a finally: skipped when the
\* handler raises
get_db_close_on_return(r) ==
  /\ reqState[r] = "returned"
  /\ closes' = [closes EXCEPT ![reqDb[r]] = Append(@, reqState[r])]
  /\ reqDb' = [reqDb EXCEPT ![r] = 0]
  /\ reqState' = [reqState EXCEPT ![r] = "idle"]
  /\ UNCHANGED <<engine, storeVars, nextSession, opened>>

\* try: yield db / finally: db.close()
get_db_finally(r) ==
  /\ reqState[r] \in {"returned", "raised"}
  /\ closes' = [closes EXCEPT ![reqDb[r]] = Append(@, reqState[r])]
  /\ reqDb' = [reqDb EXCEPT ![r] = 0]
  /\ reqState' = [reqState EXCEPT ![r] = "idle"]
  /\ UNCHANGED <<engine, storeVars, nextSession, opened>>

\* the 500 of a request whose dependency raised has been sent
request_refused(r) ==
  /\ reqState[r] = "refused"
  /\ reqState' = [reqState EXCEPT ![r] = "idle"]
  /\ UNCHANGED <<engine, storeVars, reqDb, nextSession, opened, closes>>

NextSessions ==
  \E r \in Requests :
     \/ get_db_enter(r)
     \/ handler_returns(r)
     \/ handler_raises(r)
     \/ get_db_finally(r)
     \/ request_refused(r)

\* a handler that was started ends, and the framework then resumes the
\* generator
FairSessions ==
  \A r \in Requests :
     /\ WF_vars(handler_returns(r) \/ handler_raises(r))
     /\ WF_vars(get_db_finally(r))

SpecSessions == Init /\ [][NextSessions]_vars /\ FairSessions

---------------------------------------------------------------------------
(* Properties *)

Range(q) == {q[i] : i \in 1..Len(q)}
NewRow(id) == CHOOSE r \in items' : r.id = id
OldRow(id) == CHOOSE r \in items : r.id = id

\* C1: a partial update of a stored item leaves every supplied field with
\* the supplied value (null included), every other field, id and created_at
\* as they were, and every other row untouched.
C1_PartialUpdateFrame ==
  [][ (resp'.op = "update" /\ resp'.reached /\ resp'.id \in Ids)
      => /\ \E r \in items' : r.id = resp'.id
         /\ \A f \in DOMAIN resp'.body :
               NewRow(resp'.id)[f] = resp'.body[f]
         /\ \A f \in BusinessFields \ DOMAIN resp'.body :
               NewRow(resp'.id)[f] = OldRow(resp'.id)[f]
         /\ NewRow(resp'.id).created_at = OldRow(resp'.id).created_at
         /\ {r \in items : r.id # resp'.id} = {r \in items' : r.id # resp'.id}
    ]_vars

\* The filters as the specification words them: case-insensitive substring
\* on name and location, equality on status and category, a filter applying
\* whenever the caller supplied it.
Contains(s, t) ==
  \E i \in 0..(Len(s) - Len(t)) :
     \A j \in 1..Len(t) : Lower(s[i + j]) = Lower(t[j])

SatisfiesSupplied(row, f) ==
  /\ (f.search # Null   => Contains(row["name"][1], f.search[1]))
  /\ (f.status # Null   => row["status"] = f.status)
  /\ (f.category # Null => row["category"] = f.category)
  /\ (f.location # Null => /\ row["location"] # Null
                           /\ Contains(row["location"][1], f.location[1]))

\* C2: the total of a list response is the number of stored items that
\* satisfy all supplied filters together.
C2_TotalCountsMatches ==
  (resp.op = "list" /\ resp.reached)
     => resp.total = Cardinality({r \in items :
                         SatisfiesSupplied(r, ListFilters[resp.filters])})

\* C3: page = floor(skip / limit) + 1, per_page = limit, pages is the
\* ceiling of total / limit when total > 0 and 1 when total = 0.
C3_PaginationMetadata ==
  (resp.op = "list" /\ resp.reached)
     => /\ resp.per_page = resp.limit
        /\ (resp.page - 1) * resp.limit <= resp.skip
        /\ resp.skip < resp.page * resp.limit
        /\ (resp.total = 0 => resp.pages = 1)
        /\ (resp.total > 0 => /\ (resp.pages - 1) * resp.limit < resp.total
                              /\ resp.total <= resp.pages * resp.limit)

\* C3 witness: a page whose skip is past the total and no multiple of limit
C3_Witness ==
  /\ resp.op = "list" /\ resp.reached
  /\ resp.total > 0
  /\ resp.skip > resp.total
  /\ resp.skip % resp.limit # 0
  /\ resp.limit > 1

\* C4: a page holds min(limit, max(0, total - skip)) records, and the pages
\* read at skip = 0, limit, 2*limit, ... over an unchanged table are pairwise
\* disjoint and together hold every matching record once.
C4_PagesPartitionMatches ==
  /\ (resp.op = "list" /\ resp.reached)
        => Len(resp.items)
             = Min(resp.limit, Max(0, resp.total - resp.skip))
  /\ \A i, j \in 1..Len(scan.pages) :
        i # j => Range(scan.pages[i]) \cap Range(scan.pages[j]) = {}
  /\ (scan # NoScan /\ Len(scan.pages) * scan.limit >= scan.total)
        => UNION {Range(scan.pages[i]) : i \in 1..Len(scan.pages)}
             = Matching(ListFilters[scan.filters])

\* C5: get, update and delete of an id without a stored row answer 404 and
\* leave the table as it is; an id once deleted never comes back.
C5_AbsentIdNotFound ==
  [][ /\ (resp'.reached /\ resp'.op \in {"get", "update", "delete"}
            /\ resp'.id \notin Ids)
         => (resp'.status = 404 /\ items' = items)
      /\ \A i \in created \ Ids : \A r \in items' : r.id # i
    ]_vars

\* C5 witness: an update of an id that was created and then deleted
C5_Witness ==
  /\ resp.op = "update" /\ resp.reached
  /\ resp.status = 404
  /\ resp.id \in created
  /\ resp.id \notin Ids
  /\ items # {}

\* C6: a created record's id was never returned by an earlier create, and
\* its created_at equals its updated_at.
C6_CreateFreshId ==
  [][ (resp'.op = "create" /\ resp'.status = 200)
      => /\ resp'.item.id \notin created
         /\ resp'.item.created_at = resp'.item.updated_at
    ]_vars

\* C6 witness: a create after some created record was deleted
C6_Witness ==
  /\ resp.op = "create" /\ resp.status = 200
  /\ created \ Ids # {}

\* C7: a successful update makes updated_at strictly greater, and no stored
\* row has updated_at before created_at.
C7_UpdatedAtAdvances ==
  /\ [](\A r \in items : r.updated_at >= r.created_at)
  /\ [][ (resp'.op = "update" /\ resp'.status = 200)
         => NewRow(resp'.id).updated_at > OldRow(resp'.id).updated_at
       ]_vars

\* C7 witness: a successful update that supplied no field
C7_Witness ==
  /\ resp.op = "update" /\ resp.status = 200
  /\ DOMAIN resp.body = {}

\* C8: no row that violates a constraint of the table is ever handed to the
\* store.
C8_NoViolatingWrite ==
  resp.wrote # Null => ~ViolatesConstraints(resp.wrote[1])

\* C9: a storage failure is answered with a server-error status.
C9_FaultIsServerError ==
  resp.fault => resp.status >= 500

\* C10: no two requests hold the same session, no session is closed twice,
\* and every session built is eventually closed.
C10_SessionClosedOnce ==
  /\ [](\A r1, r2 \in Requests :
           (r1 # r2 /\ reqDb[r1] # 0) => reqDb[r1] # reqDb[r2])
  /\ [](\A s \in 1..MaxSessions : Len(closes[s]) <= 1)
  /\ \A s \in 1..MaxSessions : (s \in opened) ~> (Len(closes[s]) = 1)

\* C10 witness: two requests held sessions at once, and the session of a
\* request whose handler raised has been closed
C10_Witness ==
  /\ \E s \in opened : closes[s] = << "raised" >>
  /\ \E r1, r2 \in Requests : r1 # r2 /\ reqDb[r1] # 0 /\ reqDb[r2] # 0

====
